---- MODULE Spec2Model ----
(***************************************************************************)
(* Model of the POST /verify route handler verify_async                    *)
(* (src/routes/verify_async.rs): the dedup lookup, the status match, the   *)
(* insert, the detached background task and its completion writes.         *)
(*                                                                         *)
(* The store (DbClient), the builder (verify_build) and the JobStatus      *)
(* conversion live outside the handler's file; they are modelled at their  *)
(* interface.  A handler first runs its local code up to the lookup (the    *)
(* uuid and the clock read of the record it builds); after that every      *)
(* store call is an await point, so each store call, together with the     *)
(* local code that follows the previous one, is one atomic step.  The      *)
(* background task is runnable from tokio::spawn on, so the answer the     *)
(* handler returns after the spawn is a step of its own.  The steps of     *)
(* concurrent handlers and background tasks interleave freely.             *)
(***************************************************************************)
EXTENDS Integers, Sequences, FiniteSets

VARIABLES
    builds,     \* table solana_program_builds: the set of JobRecords (rows)
    verified,   \* table verified_programs: program_id -> Option<VerifiedResult>
    calls,      \* the verify_async invocations, in arrival order
    tasks,      \* the background tasks spawned by tokio::spawn
    faults      \* number of store calls that have returned Err so far

vars == <<builds, verified, calls, tasks, faults>>

----------------------------------------------------------------------------
(* Bounds *)

\* number of verify_async invocations in a run
MaxCalls == 3

\* number of handlers running at the same time
MaxInFlight == 2

\* number of JobRecords a run creates
MaxJobs == 2

\* number of store calls that return Err in a run
MaxFaults == 1

----------------------------------------------------------------------------
(* Option<T> is a sequence of length at most one *)

None == <<>>
Some(x) == <<x>>
IsSome(o) == Len(o) = 1
Unwrap(o) == o[1]

----------------------------------------------------------------------------
(* Inputs *)

\* SolanaProgramBuildParams: the fields that make requests field-equal or not
Requests ==
    { [repository |-> "https://x/y", commit_hash |-> Some("abc123"), program_id |-> "P1"],
      [repository |-> "https://x/y", commit_hash |-> None,           program_id |-> "P1"] }

ProgramIds == { r.program_id : r \in Requests }

\* what verify_build can return in Ok(..), up to the program id
Verdicts ==
    { [is_verified |-> TRUE,  on_chain_hash |-> "h1", executable_hash |-> "h1"],
      [is_verified |-> FALSE, on_chain_hash |-> "h1", executable_hash |-> "h2"] }

----------------------------------------------------------------------------
(* JobStatus and its string form *)

JobStatusToString(s) ==
    CASE s = "InProgress" -> "in_progress"
      [] s = "Completed"  -> "completed"
      [] s = "Failed"     -> "failed"

----------------------------------------------------------------------------
(* Responses: the ApiResponse variants the handler builds *)

MsgVerified     == "On chain program verified"
MsgNotVerified  == "On chain program not verified"
MsgAlready      == "Build verification already in progress"
MsgStarted      == "Build verification started"
MsgFailedBefore == "The previous request has already been processed, but unfortunately, the verification process has failed."
MsgDbError      == "An unforeseen database error has occurred, preventing the initiation of the build process. Kindly try again after some time."

\* faulty variant of RepoUrl: the commit is left out
RepoUrl_Bare(data) == data.repository

\* lines 53-57: commit_hash.map_or(repository, |hash| format!("{}/commit/{}", repository, hash))
RepoUrl(data) ==
    IF IsSome(data.commit_hash)
    THEN data.repository \o "/commit/" \o Unwrap(data.commit_hash)
    ELSE data.repository

\* faulty variant of StatusResponse: the on-chain hash is filled from the executable hash
StatusResponse_SwappedHash(data, vb) ==
    [ code            |-> 200,
      shape           |-> "StatusResponse",
      is_verified     |-> vb.is_verified,
      message         |-> IF vb.is_verified THEN MsgVerified ELSE MsgNotVerified,
      on_chain_hash   |-> vb.executable_hash,
      executable_hash |-> vb.executable_hash,
      repo_url        |-> RepoUrl(data) ]

\* lines 41-61
StatusResponse(data, vb) ==
    [ code            |-> 200,
      shape           |-> "StatusResponse",
      is_verified     |-> vb.is_verified,
      message         |-> IF vb.is_verified THEN MsgVerified ELSE MsgNotVerified,
      on_chain_hash   |-> vb.on_chain_hash,
      executable_hash |-> vb.executable_hash,
      repo_url        |-> RepoUrl(data) ]

\* lines 65-75
AlreadyInProgressResponse(uuid) ==
    [ code |-> 200, shape |-> "VerifyResponse", status |-> "InProgress",
      request_id |-> uuid, message |-> MsgAlready ]

\* lines 79-88
ConflictResponse ==
    [ code |-> 409, shape |-> "ErrorResponse", status |-> "Error", error |-> MsgFailedBefore ]

\* lines 99-108
InsertErrorResponse ==
    [ code |-> 500, shape |-> "ErrorResponse", status |-> "Error", error |-> MsgDbError ]

\* lines 134-144
StartedResponse(uuid) ==
    [ code |-> 200, shape |-> "VerifyResponse", status |-> "InProgress",
      request_id |-> uuid, message |-> MsgStarted ]

----------------------------------------------------------------------------
(* The store *)

\* a store call returns Ok (TRUE) or Err (FALSE)
DbOutcomes == IF faults < MaxFaults THEN BOOLEAN ELSE {TRUE}

Fault(db_ok) == faults' = IF db_ok THEN faults ELSE faults + 1

FieldEqual(b, r) ==
    /\ b.repository = r.repository
    /\ b.commit_hash = r.commit_hash
    /\ b.program_id = r.program_id

Matching(r) == { b \in builds : FieldEqual(b, r) }

\* db.is_build_params_exists_already, Ok case: what the call can return, the
\* field-equal record with the latest created_at; among records of equal
\* created_at the store returns any one
is_build_params_exists_already(r) ==
    IF Matching(r) = {} THEN {None}
    ELSE { Some(b) : b \in { m \in Matching(r) :
                                \A o \in Matching(r) : o.created_at <= m.created_at } }

\* db.get_verified_build: Ok(row) is Some, a missing row is an Err
get_verified_build(program_id) == verified[program_id]

\* db.insert_build_params, Ok case
insert_build_params(data) == builds \cup {data}

\* db.update_build_status, Ok case: UPDATE ... SET status = status WHERE id = id
update_build_status(id, status) ==
    { IF b.id = id THEN [b EXCEPT !.status = status] ELSE b : b \in builds }

\* db.insert_or_update_verified_build, Ok case: upsert keyed by program_id
insert_or_update_verified_build(res) ==
    [ verified EXCEPT ![res.program_id] = Some(res) ]

----------------------------------------------------------------------------
(* The handler *)

\* line 15: a fresh v4 uuid, never equal to an earlier one
NewUuid == Len(calls) + 1

\* the values the clock has been read at
Read == { calls[c].data.created_at : c \in 1..Len(calls) }

\* line 23: Utc::now(), the values a read of the wall clock can give.  The
\* wall clock is not monotonic and may stand still: a read can give a later
\* value than, the same value as, or an earlier value than any other read.
\* Only the order of the timestamps matters to the store, so a read gives a
\* value read before, or a value below, between or above the values read
\* before; the first read is in the middle of the range and the distance to
\* the new values halves with every read, which leaves room on every side.
Now ==
    LET step == IF Len(calls) < MaxCalls THEN 2 ^ (MaxCalls - 1 - Len(calls)) ELSE 1
    IN  IF Read = {} THEN { step }
        ELSE Read \cup { u - step : u \in Read } \cup { u + step : u \in Read }

\* faulty variant of VerifyBuildData: the record is built as Completed
VerifyBuildData_Completed(payload, uuid, now) ==
    [ id          |-> uuid,
      repository  |-> payload.repository,
      commit_hash |-> payload.commit_hash,
      program_id  |-> payload.program_id,
      created_at  |-> now,
      status      |-> JobStatusToString("Completed") ]

\* lines 16-28
VerifyBuildData(payload, uuid, now) ==
    [ id          |-> uuid,
      repository  |-> payload.repository,
      commit_hash |-> payload.commit_hash,
      program_id  |-> payload.program_id,
      created_at  |-> now,
      status      |-> JobStatusToString("InProgress") ]

\* faulty variant of DedupArm: a Failed duplicate falls through to the insert
DedupArm_RetryFailed(is_duplicate) ==
    IF ~IsSome(is_duplicate) THEN "insert"
    ELSE CASE Unwrap(is_duplicate).status = "completed"  -> "completed"
           [] Unwrap(is_duplicate).status = "in_progess" -> "in_progress"
           [] OTHER                                      -> "insert"

\* lines 36-94: the arm of the match the found record's status selects
DedupArm(is_duplicate) ==
    IF ~IsSome(is_duplicate) THEN "insert"
    ELSE CASE Unwrap(is_duplicate).status = "completed"  -> "completed"
           [] Unwrap(is_duplicate).status = "in_progess" -> "in_progress"
           [] Unwrap(is_duplicate).status = "failed"     -> "failed"
           [] OTHER                                      -> "insert"

\* faulty variant of IsDuplicate: an Err of the lookup is not turned into None
IsDuplicate_NotFailOpen(found, lookup_ok) == found

\* lines 31-34: the lookup with .unwrap_or(None): an Err counts as no duplicate
\* found is what the store call returns in Ok(..)
IsDuplicate(found, lookup_ok) ==
    IF lookup_ok THEN found ELSE None

\* faulty variant of SpawnedTask: nothing is spawned
SpawnedTask_None(payload, id) == {}

\* lines 114-132: the future handed to tokio::spawn
SpawnedTask(payload, id) ==
    { [ payload |-> payload, id |-> id, pc |-> "verify_build", res |-> None,
        failed |-> FALSE, upsert_ok |-> FALSE, status_ok |-> FALSE ] }

\* the handlers that have started and have neither returned nor panicked
InFlight == { c \in 1..Len(calls) : calls[c].pc \notin {"done", "panicked"} }

\* a call goes on to the insert while the run has room for its record
JobsBound(is_duplicate) ==
    LET inserting == { c \in 1..Len(calls) : calls[c].pc = "insert_build_params" }
    IN  DedupArm(is_duplicate) = "insert" =>
            Cardinality(builds) + Cardinality(inserting) < MaxJobs

Init ==
    /\ builds = {}
    /\ verified = [ p \in ProgramIds |-> None ]
    /\ calls = <<>>
    /\ tasks = {}
    /\ faults = 0

\* lines 11-30: the handler starts, draws its uuid, reads the clock and builds
\* the record, up to the first await
Start(payload, now) ==
    /\ Len(calls) < MaxCalls
    /\ Cardinality(InFlight) < MaxInFlight
    /\ LET uuid == NewUuid
           data == VerifyBuildData(payload, uuid, now)
       IN  calls' = Append(calls,
             [ payload |-> payload, uuid |-> uuid, data |-> data,
               lookup_ok |-> TRUE, is_duplicate |-> None, matching |-> {},
               pc |-> "lookup", response |-> None ])
    /\ UNCHANGED <<builds, verified, tasks, faults>>

\* lines 31-37 and the arms without a store call (63-93):
\* look for a duplicate, answer or go on
Lookup(c, lookup_ok, found) ==
    /\ calls[c].pc = "lookup"
    /\ LET dup  == IsDuplicate(found, lookup_ok)
           arm  == DedupArm(dup)
           uuid == calls[c].uuid
           call == [ calls[c] EXCEPT !.lookup_ok = lookup_ok, !.is_duplicate = dup,
                                     !.matching = Matching(calls[c].payload) ]
       IN  /\ JobsBound(dup)
           /\ calls' = [ calls EXCEPT ![c] =
                 CASE arm = "completed"   -> [call EXCEPT !.pc = "get_verified_build"]
                   [] arm = "in_progress" -> [call EXCEPT !.pc = "done",
                                                !.response = Some(AlreadyInProgressResponse(uuid))]
                   [] arm = "failed"      -> [call EXCEPT !.pc = "done",
                                                !.response = Some(ConflictResponse)]
                   [] OTHER               -> [call EXCEPT !.pc = "insert_build_params"] ]
    /\ Fault(lookup_ok)
    /\ UNCHANGED <<builds, verified, tasks>>

\* lines 38-62: fetch the verified build and report it; .unwrap() panics on Err
GetVerifiedBuild(c, db_ok) ==
    /\ calls[c].pc = "get_verified_build"
    /\ LET vb == IF db_ok THEN get_verified_build(Unwrap(calls[c].is_duplicate).program_id)
                 ELSE None
       IN  calls' = [calls EXCEPT ![c] =
             IF IsSome(vb)
             THEN [@ EXCEPT !.pc = "done",
                            !.response = Some(StatusResponse(calls[c].data, Unwrap(vb)))]
             ELSE [@ EXCEPT !.pc = "panicked"]]
    /\ Fault(db_ok)
    /\ UNCHANGED <<builds, verified, tasks>>

\* faulty variant of InsertBuildParams: the Err of the insert is logged but
\* the handler goes on to spawn and acknowledge
InsertBuildParams_SpawnOnError(c, db_ok) ==
    /\ calls[c].pc = "insert_build_params"
    /\ builds' = IF db_ok THEN insert_build_params(calls[c].data) ELSE builds
    /\ tasks' = tasks \cup SpawnedTask(calls[c].payload, calls[c].data.id)
    /\ calls' = [calls EXCEPT ![c].pc = "return_started"]
    /\ Fault(db_ok)
    /\ UNCHANGED verified

\* lines 96-132: insert the record; on Err answer the error and stop, on Ok
\* hand the background task to tokio::spawn, which makes it runnable at once
InsertBuildParams(c, db_ok) ==
    /\ calls[c].pc = "insert_build_params"
    /\ IF db_ok
       THEN /\ builds' = insert_build_params(calls[c].data)
            /\ tasks' = tasks \cup SpawnedTask(calls[c].payload, calls[c].data.id)
            /\ calls' = [calls EXCEPT ![c].pc = "return_started"]
       ELSE /\ builds' = builds
            /\ tasks' = tasks
            /\ calls' = [calls EXCEPT ![c].pc = "done",
                                      ![c].response = Some(InsertErrorResponse)]
    /\ Fault(db_ok)
    /\ UNCHANGED verified

\* faulty variant of ReturnStarted: the handler awaits the spawned task (the
\* JoinHandle) before it acknowledges
ReturnStarted_AwaitsTask(c) ==
    /\ calls[c].pc = "return_started"
    /\ \A t \in tasks : t.id = calls[c].data.id => t.pc = "done"
    /\ calls' = [calls EXCEPT ![c].pc = "done",
                              ![c].response = Some(StartedResponse(calls[c].uuid))]
    /\ UNCHANGED <<builds, verified, tasks, faults>>

\* lines 134-144: the handler, back from tokio::spawn, builds and returns the
\* started answer; the spawned task may have run in between
ReturnStarted(c) ==
    /\ calls[c].pc = "return_started"
    /\ calls' = [calls EXCEPT ![c].pc = "done",
                              ![c].response = Some(StartedResponse(calls[c].uuid))]
    /\ UNCHANGED <<builds, verified, tasks, faults>>

----------------------------------------------------------------------------
(* The background task, lines 114-132 *)

Step(t, u) == tasks' = (tasks \ {t}) \cup {u}

\* faulty variant of VerifyBuildOk: a row already stored for the program id
\* is kept
VerifyBuildOk_FirstWriterWins(t, verdict, db_ok) ==
    /\ t.pc = "verify_build"
    /\ LET res == [ program_id      |-> t.payload.program_id,
                    is_verified     |-> verdict.is_verified,
                    on_chain_hash   |-> verdict.on_chain_hash,
                    executable_hash |-> verdict.executable_hash ]
       IN  /\ verified' = IF db_ok /\ ~IsSome(verified[res.program_id])
                          THEN insert_or_update_verified_build(res) ELSE verified
           /\ Step(t, [t EXCEPT !.pc = "update_build_status", !.res = Some(res),
                                !.upsert_ok = db_ok])
    /\ Fault(db_ok)
    /\ UNCHANGED <<builds, calls>>

\* faulty variant of VerifyBuildOk: an Err of the upsert ends the task
VerifyBuildOk_StopsOnUpsertError(t, verdict, db_ok) ==
    /\ t.pc = "verify_build"
    /\ LET res == [ program_id      |-> t.payload.program_id,
                    is_verified     |-> verdict.is_verified,
                    on_chain_hash   |-> verdict.on_chain_hash,
                    executable_hash |-> verdict.executable_hash ]
       IN  /\ verified' = IF db_ok THEN insert_or_update_verified_build(res) ELSE verified
           /\ Step(t, [t EXCEPT !.pc = IF db_ok THEN "update_build_status" ELSE "done",
                                !.res = Some(res), !.upsert_ok = db_ok])
    /\ Fault(db_ok)
    /\ UNCHANGED <<builds, calls>>

\* lines 115-117: verify_build returns Ok(res), then
\* let _ = db.insert_or_update_verified_build(&res).await
VerifyBuildOk(t, verdict, db_ok) ==
    /\ t.pc = "verify_build"
    /\ LET res == [ program_id      |-> t.payload.program_id,
                    is_verified     |-> verdict.is_verified,
                    on_chain_hash   |-> verdict.on_chain_hash,
                    executable_hash |-> verdict.executable_hash ]
       IN  /\ verified' = IF db_ok THEN insert_or_update_verified_build(res) ELSE verified
           /\ Step(t, [t EXCEPT !.pc = "update_build_status", !.res = Some(res),
                                !.upsert_ok = db_ok])
    /\ Fault(db_ok)
    /\ UNCHANGED <<builds, calls>>

\* faulty variant of UpdateBuildStatusCompleted: the Ok arm records Failed
UpdateBuildStatusCompleted_RecordsFailed(t, db_ok) ==
    /\ t.pc = "update_build_status"
    /\ builds' = IF db_ok THEN update_build_status(t.id, JobStatusToString("Failed"))
                 ELSE builds
    /\ Step(t, [t EXCEPT !.pc = "done", !.status_ok = db_ok])
    /\ Fault(db_ok)
    /\ UNCHANGED <<verified, calls>>

\* lines 118-120: let _ = db.update_build_status(id, Completed)
UpdateBuildStatusCompleted(t, db_ok) ==
    /\ t.pc = "update_build_status"
    /\ builds' = IF db_ok THEN update_build_status(t.id, JobStatusToString("Completed"))
                 ELSE builds
    /\ Step(t, [t EXCEPT !.pc = "done", !.status_ok = db_ok])
    /\ Fault(db_ok)
    /\ UNCHANGED <<verified, calls>>

\* faulty variant of VerifyBuildErr: the Err arm records Completed
VerifyBuildErr_RecordsCompleted(t, db_ok) ==
    /\ t.pc = "verify_build"
    /\ builds' = IF db_ok THEN update_build_status(t.id, JobStatusToString("Completed"))
                 ELSE builds
    /\ Step(t, [t EXCEPT !.pc = "done", !.failed = TRUE, !.status_ok = db_ok])
    /\ Fault(db_ok)
    /\ UNCHANGED <<verified, calls>>

\* faulty variant of VerifyBuildErr: after the Err arm the task goes on to
\* the status update of the Ok arm
VerifyBuildErr_FallsThrough(t, db_ok) ==
    /\ t.pc = "verify_build"
    /\ builds' = IF db_ok THEN update_build_status(t.id, JobStatusToString("Failed"))
                 ELSE builds
    /\ Step(t, [t EXCEPT !.pc = "update_build_status", !.failed = TRUE,
                         !.status_ok = db_ok])
    /\ Fault(db_ok)
    /\ UNCHANGED <<verified, calls>>

\* lines 115, 122-130: verify_build returns Err(err), then
\* let _ = db.update_build_status(id, Failed)
VerifyBuildErr(t, db_ok) ==
    /\ t.pc = "verify_build"
    /\ builds' = IF db_ok THEN update_build_status(t.id, JobStatusToString("Failed"))
                 ELSE builds
    /\ Step(t, [t EXCEPT !.pc = "done", !.failed = TRUE, !.status_ok = db_ok])
    /\ Fault(db_ok)
    /\ UNCHANGED <<verified, calls>>

\* one step of the background task spawned for JobRecord id
TaskStep(id) ==
    \E t \in tasks :
        /\ t.id = id
        /\ \E ok \in DbOutcomes :
              \/ \E v \in Verdicts : VerifyBuildOk(t, v, ok)
              \/ UpdateBuildStatusCompleted(t, ok)
              \/ VerifyBuildErr(t, ok)

Next ==
    \/ \E r \in Requests, now \in Now : Start(r, now)
    \/ \E c \in 1..Len(calls), ok \in DbOutcomes :
          \E found \in is_build_params_exists_already(calls[c].payload) :
              Lookup(c, ok, found)
    \/ \E c \in 1..Len(calls), ok \in DbOutcomes : GetVerifiedBuild(c, ok)
    \/ \E c \in 1..Len(calls), ok \in DbOutcomes : InsertBuildParams(c, ok)
    \/ \E c \in 1..Len(calls) : ReturnStarted(c)
    \/ \E id \in 1..MaxCalls : TaskStep(id)

Spec == Init /\ [][Next]_vars

\* the runtime runs every spawned task to its end and every store call returns
FairSpec ==
    /\ Spec
    /\ \A id \in 1..MaxCalls : WF_vars(TaskStep(id))

\* one step of the request handler of call c past its lookup: a store call
\* that returns, or the return of the started answer
HandlerStep(c) ==
    /\ c <= Len(calls)
    /\ \/ \E ok \in DbOutcomes : GetVerifiedBuild(c, ok) \/ InsertBuildParams(c, ok)
       \/ ReturnStarted(c)

\* every store call of a request handler returns; nothing is assumed of the
\* background tasks, which may run for ever
HandlerFairSpec ==
    /\ Spec
    /\ \A c \in 1..MaxCalls : WF_vars(HandlerStep(c))

----------------------------------------------------------------------------
(* Vocabulary of the properties *)

Calls == 1..Len(calls)
Finished(c) == calls[c].pc = "done"
Response(c) == Unwrap(calls[c].response)

\* the JobRecords and background tasks that carry the id generated by call c
RecordsOf(c) == { b \in builds : b.id = calls[c].uuid }
TasksOf(c) == { t \in tasks : t.id = calls[c].uuid }
CreatedNothing(c) == RecordsOf(c) = {} /\ TasksOf(c) = {}

\* the dedup lookup of call c returned a record in the given status
Found(c, status) ==
    /\ IsSome(calls[c].is_duplicate)
    /\ Unwrap(calls[c].is_duplicate).status = JobStatusToString(status)

\* a field-equal record in the given status existed when call c did its lookup
Existed(c, status) ==
    \E b \in calls[c].matching : b.status = JobStatusToString(status)

Terminal == { JobStatusToString("Completed"), JobStatusToString("Failed") }

----------------------------------------------------------------------------
(* C1 *)

\* C1: a submit whose dedup lookup returns a field-equal InProgress record
\* answers 'Build verification already in progress', goes on to no insert and
\* creates no JobRecord and no background task.
C1_InProgressDuplicateAcknowledged ==
    \A c \in Calls :
        Found(c, "InProgress") =>
            /\ Finished(c)
            /\ Response(c) = AlreadyInProgressResponse(calls[c].uuid)
            /\ CreatedNothing(c)

----------------------------------------------------------------------------
(* C2 *)

\* C2 as stated: whenever a field-equal Completed record exists at the lookup,
\* submit ends with the report built from the result of that record's own
\* job, and creates no JobRecord and no task.
C2_ReportOfFirstJob ==
    \A c \in Calls :
        Existed(c, "Completed") =>
            /\ calls[c].pc \in {"get_verified_build", "done"}
            /\ CreatedNothing(c)
            /\ Finished(c) =>
                \E b \in calls[c].matching, t \in tasks :
                    /\ b.status = JobStatusToString("Completed")
                    /\ t.id = b.id
                    /\ IsSome(t.res)
                    /\ Response(c).shape = "StatusResponse"
                    /\ Response(c).is_verified = Unwrap(t.res).is_verified
                    /\ Response(c).on_chain_hash = Unwrap(t.res).on_chain_hash
                    /\ Response(c).executable_hash = Unwrap(t.res).executable_hash

\* the step in which call c gets its report
Reports(c) == calls[c].pc = "get_verified_build" /\ calls'[c].pc = "done"

\* C2 amended: a submit whose dedup lookup returns a Completed record never
\* inserts or spawns, and when its read of the verified build returns a row,
\* the report carries the verdict and hashes of the row stored for the program
\* id at that moment, with the store and the tasks left as they were.
C2_ReportOfStoredResult ==
    /\ [](\A c \in Calls :
            Found(c, "Completed") =>
                /\ calls[c].pc \in {"get_verified_build", "done", "panicked"}
                /\ CreatedNothing(c))
    /\ [][\A c \in Calls :
            Reports(c) =>
                LET stored == verified[calls[c].payload.program_id]
                    report == Unwrap(calls'[c].response)
                IN  /\ IsSome(stored)
                    /\ report.shape = "StatusResponse"
                    /\ report.code = 200
                    /\ report.is_verified = Unwrap(stored).is_verified
                    /\ report.on_chain_hash = Unwrap(stored).on_chain_hash
                    /\ report.executable_hash = Unwrap(stored).executable_hash
                    /\ builds' = builds /\ tasks' = tasks /\ verified' = verified]_vars

\* a repeated request got the report of a not-verified build
C2_Witness ==
    \E c \in Calls :
        /\ Found(c, "Completed")
        /\ Finished(c)
        /\ Response(c).shape = "StatusResponse"
        /\ ~Response(c).is_verified
        /\ Response(c).executable_hash = "h2"

----------------------------------------------------------------------------
(* C3 *)

\* C3 as stated: whenever a field-equal Failed record exists at the lookup,
\* submit answers the conflict and creates no JobRecord and no task.
C3_ConflictWheneverFailedExists ==
    \A c \in Calls :
        Existed(c, "Failed") =>
            /\ Finished(c)
            /\ Response(c) = ConflictResponse
            /\ CreatedNothing(c)

\* C3 amended: a submit whose dedup lookup returns a Failed record answers the
\* conflict (409) at once and creates no JobRecord and no task, so the
\* verification is not run again for it.
C3_ConflictOnFailedMatch ==
    \A c \in Calls :
        Found(c, "Failed") =>
            /\ Finished(c)
            /\ Response(c) = ConflictResponse
            /\ Response(c).code = 409
            /\ CreatedNothing(c)

\* the same request was repeated twice after its job failed, both got the conflict
C3_Witness ==
    \E c, d \in Calls :
        /\ c < d
        /\ Found(c, "Failed") /\ Found(d, "Failed")
        /\ calls[c].payload = calls[d].payload
        /\ Finished(c) /\ Finished(d)

----------------------------------------------------------------------------
(* C4 *)

\* C4: a finished submit that saw no field-equal record and whose insert
\* succeeded has exactly one JobRecord under its id, field-equal to the
\* request and InProgress until its task writes a status, exactly one task
\* for that id and request, and the 'Build verification started' answer.
C4_NewJobCreatedOnce ==
    \A c \in Calls :
        (calls[c].matching = {} /\ Finished(c) /\ Response(c) # InsertErrorResponse) =>
            /\ Response(c) = StartedResponse(calls[c].uuid)
            /\ Cardinality(RecordsOf(c)) = 1
            /\ Cardinality(TasksOf(c)) = 1
            /\ \A b \in RecordsOf(c) : FieldEqual(b, calls[c].payload)
            /\ \A t \in TasksOf(c) :
                /\ t.payload = calls[c].payload
                /\ t.pc # "done" =>
                     \A b \in RecordsOf(c) : b.status = JobStatusToString("InProgress")

\* a first submit was accepted and its task has not written yet
C4_Witness ==
    \E c \in Calls :
        /\ calls[c].matching = {}
        /\ Finished(c)
        /\ Response(c) = StartedResponse(calls[c].uuid)
        /\ \E t \in TasksOf(c) : t.pc = "verify_build"

----------------------------------------------------------------------------
(* C5 *)

\* C5: no two JobRecords with field-equal requests are InProgress together,
\* and no two unfinished background tasks run for field-equal requests
\* (stated for the runs in which no store call fails, so that the fail-open
\* lookup plays no part).
C5_AtMostOneActiveJob ==
    faults = 0 =>
    /\ \A b1, b2 \in builds :
          ( /\ b1.id # b2.id
            /\ FieldEqual(b1, b2)
            /\ b1.status = JobStatusToString("InProgress") )
          => b2.status # JobStatusToString("InProgress")
    /\ \A t1, t2 \in tasks :
          (t1.id # t2.id /\ t1.payload = t2.payload /\ t1.pc # "done") => t2.pc = "done"

----------------------------------------------------------------------------
(* C6 *)

\* C6: every step keeps each JobRecord's status or moves it from InProgress
\* to Completed or Failed, and every JobRecord a step adds is InProgress.
C6_StatusMonotonic ==
    [][ /\ \A b \in builds :
             \E n \in builds' :
                /\ n.id = b.id
                /\ \/ n.status = b.status
                   \/ /\ b.status = JobStatusToString("InProgress")
                      /\ n.status \in Terminal
        /\ \A n \in builds' :
             (\A b \in builds : b.id # n.id) => n.status = JobStatusToString("InProgress")
        /\ Cardinality(builds') = Cardinality({ n.id : n \in builds' }) ]_vars

\* one job completed and another failed, and a submit came after both
C6_Witness ==
    /\ \E b \in builds : b.status = JobStatusToString("Completed")
    /\ \E b \in builds : b.status = JobStatusToString("Failed")
    /\ \E c \in Calls : Finished(c) /\ \A b \in calls[c].matching : b.status \in Terminal
                        /\ calls[c].matching # {}

----------------------------------------------------------------------------
(* C7 *)

\* C7: a submit that reached the insert ends either with the record stored,
\* its task spawned and the started answer, or - the insert failed - with the
\* internal error (500), no record and no task; and every background task
\* belongs to a stored JobRecord.
C7_InsertPrecedesLaunch ==
    /\ \A c \in Calls :
          (Finished(c) /\ DedupArm(calls[c].is_duplicate) = "insert") =>
              \/ /\ Response(c) = StartedResponse(calls[c].uuid)
                 /\ RecordsOf(c) # {} /\ TasksOf(c) # {}
              \/ /\ Response(c) = InsertErrorResponse
                 /\ Response(c).code = 500
                 /\ CreatedNothing(c)
    /\ \A t \in tasks : \E b \in builds : b.id = t.id

\* an insert failed and its caller got the internal error
C7_Witness ==
    \E c \in Calls :
        /\ Finished(c)
        /\ Response(c) = InsertErrorResponse
        /\ CreatedNothing(c)

----------------------------------------------------------------------------
(* C8 *)

\* C8: a submit whose dedup lookup returns a Completed record and that is past
\* its read of the verified build has answered: with the report, or - no row,
\* or the read failed - with the internal error; and it created nothing.
C8_MissingResultIsInternalError ==
    \A c \in Calls :
        (Found(c, "Completed") /\ calls[c].pc # "get_verified_build") =>
            /\ Finished(c)
            /\ \/ Response(c).shape = "StatusResponse"
               \/ Response(c).shape = "ErrorResponse" /\ Response(c).code = 500
            /\ CreatedNothing(c)

----------------------------------------------------------------------------
(* C9 *)

\* C9: a submit whose dedup lookup failed holds no duplicate, whatever
\* field-equal records exist, goes on to the insert, and ends with the started
\* answer, a record and a task under its id - or with the insert's own error;
\* it never ends with a report, an already-in-progress answer or a conflict.
C9_LookupFailOpen ==
    \A c \in Calls :
        (calls[c].pc # "lookup" /\ ~calls[c].lookup_ok) =>
            /\ calls[c].is_duplicate = None
            /\ calls[c].pc \in {"insert_build_params", "return_started", "done"}
            /\ Finished(c) =>
                \/ /\ Response(c) = StartedResponse(calls[c].uuid)
                   /\ Cardinality(RecordsOf(c)) = 1
                   /\ Cardinality(TasksOf(c)) = 1
                \/ /\ Response(c) = InsertErrorResponse
                   /\ CreatedNothing(c)

\* the lookup failed while a field-equal Failed record existed, and a new job was started
C9_Witness ==
    \E c \in Calls :
        /\ ~calls[c].lookup_ok
        /\ Existed(c, "Failed")
        /\ Finished(c)
        /\ Response(c) = StartedResponse(calls[c].uuid)
        /\ TasksOf(c) # {}

----------------------------------------------------------------------------
(* C10 *)

\* the status the background task t is to record
Outcome(t) == JobStatusToString(IF t.failed THEN "Failed" ELSE "Completed")

\* C10 as stated: once the background task of a JobRecord has finished, the
\* record is Completed (the build succeeded) or Failed (it failed).
C10_FinishedTaskIsRecorded ==
    \A t \in tasks :
        t.pc = "done" => \E b \in builds : b.id = t.id /\ b.status = Outcome(t)

\* C10 amended: every spawned background task finishes, and when its status
\* update succeeded the JobRecord carries the outcome from then on; a submit
\* whose dedup lookup returns a record in a terminal status is never answered
\* as in progress and never starts a job.
C10_OutcomeRecordedUnlessUpdateFails ==
    /\ \A id \in 1..MaxCalls :
          (\E t \in tasks : t.id = id) ~> (\E t \in tasks : t.id = id /\ t.pc = "done")
    /\ [](\A t \in tasks :
            (t.pc = "done" /\ t.status_ok) =>
                \E b \in builds : b.id = t.id /\ b.status = Outcome(t))
    /\ [](\A c \in Calls :
            (Found(c, "Completed") \/ Found(c, "Failed")) =>
                /\ calls[c].pc # "insert_build_params"
                /\ CreatedNothing(c)
                /\ Finished(c) => Response(c).shape # "VerifyResponse")

\* a job failed, the failure was recorded, and a later submit found it
C10_Witness ==
    \E t \in tasks, c \in Calls :
        /\ t.pc = "done" /\ t.failed /\ t.status_ok
        /\ Found(c, "Failed")
        /\ Unwrap(calls[c].is_duplicate).id = t.id
        /\ Finished(c)

----------------------------------------------------------------------------
(* C11 *)

\* the step in which call c gets the 'Build verification started' answer
Acknowledged(c) ==
    /\ calls[c].pc = "return_started"
    /\ calls'[c].pc = "done"

\* call c is at its insert or, the task spawned, before its answer
AwaitsAnswer(c) == calls[c].pc \in {"insert_build_params", "return_started"}

\* C11: with no assumption on the background tasks, every submit that goes on
\* to the insert gets its answer, so that in the end none is left waiting;
\* once the insert has succeeded and the task is spawned, the started answer
\* can be given in every state, whatever the tasks have or have not done; and
\* the step that gives it is the handler's own, leaving the store and the
\* tasks as they are.
C11_RequestPathNeverWaits ==
    /\ <>[](\A c \in Calls : ~AwaitsAnswer(c))
    /\ [](\A c \in Calls :
            calls[c].pc = "return_started" => ENABLED ReturnStarted(c))
    /\ [][\A c \in Calls :
            Acknowledged(c) =>
                /\ calls'[c].response = Some(StartedResponse(calls[c].uuid))
                /\ builds' = builds /\ verified' = verified /\ tasks' = tasks]_vars

\* two submits were acknowledged while the task of the first has not finished
C11_Witness ==
    \E c, d \in Calls :
        /\ c < d
        /\ Finished(c) /\ Response(c) = StartedResponse(calls[c].uuid)
        /\ Finished(d) /\ Response(d) = StartedResponse(calls[d].uuid)
        /\ \E t \in TasksOf(c) : t.pc = "verify_build"

----------------------------------------------------------------------------
(* C12 *)

\* the JobRecords of program id p that are Completed
CompletedFor(p) ==
    { b \in builds : b.program_id = p /\ b.status = JobStatusToString("Completed") }

\* the background tasks whose upsert stored a row for program id p
WritersOf(p) ==
    { t \in tasks : t.payload.program_id = p /\ IsSome(t.res) /\ t.upsert_ok }

\* C12 as stated: in every reachable state a VerifiedResult is stored for a
\* program id only if some JobRecord of that program id is Completed.
C12_ResultOnlyIfCompleted ==
    \A p \in ProgramIds : IsSome(verified[p]) => CompletedFor(p) # {}

\* C12 amended: a VerifiedResult is stored for a program id only if it was
\* written by a background task of that program id whose verify_build
\* returned Ok; the JobRecord of that task is Completed exactly when its
\* status update has been issued and succeeded, and InProgress until then or
\* when that update failed.
C12_ResultOnlyIfWorkerSucceeded ==
    \A p \in ProgramIds :
        IsSome(verified[p]) =>
            /\ \E t \in WritersOf(p) : t.res = verified[p]
            /\ \A t \in WritersOf(p) :
                  /\ ~t.failed
                  /\ \E b \in builds :
                        /\ b.id = t.id
                        /\ b.program_id = p
                        /\ b.status = IF t.pc = "done" /\ t.status_ok
                                      THEN JobStatusToString("Completed")
                                      ELSE JobStatusToString("InProgress")

\* a result is stored, its writer has finished with a failed status update,
\* and no JobRecord of the program id is Completed
C12_Witness ==
    \E p \in ProgramIds :
        /\ IsSome(verified[p])
        /\ CompletedFor(p) = {}
        /\ \E t \in WritersOf(p) : t.pc = "done" /\ ~t.status_ok

----------------------------------------------------------------------------
(* C13 *)

\* the arm of the match on verify_build's result that task t has entered
OkArm(t) == IsSome(t.res)
ErrArm(t) == t.failed

\* C13: there is at most one background task per JobRecord id; a task never
\* enters both arms of the match on verify_build's result, and a finished
\* task has entered exactly one; a finished task stays as it is; and the
\* status of a JobRecord changes only in the step that finishes the task of
\* its id, so it changes at most once.
C13_OneTaskOneBranchOneUpdate ==
    /\ [](\A t, u \in tasks : t.id = u.id => t = u)
    /\ [](\A t \in tasks :
            /\ ~(OkArm(t) /\ ErrArm(t))
            /\ t.pc = "done" => (OkArm(t) \/ ErrArm(t)))
    /\ [][\A t \in tasks : t.pc = "done" => t \in tasks']_vars
    /\ [][\A b \in builds, a \in builds' :
            (a.id = b.id /\ a.status # b.status) =>
                /\ \E t \in tasks : t.id = b.id /\ t.pc # "done"
                /\ \E t \in tasks' : t.id = b.id /\ t.pc = "done" /\ t.status_ok]_vars

\* one task finished through the Ok arm and another through the Err arm, each
\* with its status update done
C13_Witness ==
    \E t, u \in tasks :
        /\ t.pc = "done" /\ OkArm(t) /\ t.status_ok
        /\ u.pc = "done" /\ ErrArm(u) /\ u.status_ok
        /\ \E b \in builds : b.id = t.id /\ b.status = JobStatusToString("Completed")
        /\ \E b \in builds : b.id = u.id /\ b.status = JobStatusToString("Failed")

----------------------------------------------------------------------------
(* C14 *)

\* call c is the call whose handler takes the step
HandlerMoves(c) == c > Len(calls) \/ calls'[c] # calls[c]

\* the dedup lookup of call c returned a record in one of the given statuses
Hit(c, statuses) ==
    /\ IsSome(calls'[c].is_duplicate)
    /\ Unwrap(calls'[c].is_duplicate).status \in
          { JobStatusToString(s) : s \in statuses }

\* C14: a JobRecord, once created, stays in the store with its id, its
\* request fields and its created_at, only its status may change; and no
\* step of a submit whose dedup lookup returned a Completed, InProgress or
\* Failed record changes the JobRecords or the VerifiedResults.
C14_FrameOfRecordsAndHits ==
    /\ [][\A b \in builds :
            \E a \in builds' : [a EXCEPT !.status = b.status] = b]_vars
    /\ [][\A c \in 1..Len(calls') :
            (Hit(c, {"Completed", "InProgress", "Failed"}) /\ HandlerMoves(c)) =>
                (builds' = builds /\ verified' = verified /\ tasks' = tasks)]_vars

----------------------------------------------------------------------------
(* C15 *)

\* the background tasks that have finished with a failed status update
Unrecorded == { t \in tasks : t.pc = "done" /\ ~t.status_ok }

\* C15: when the status update of a finished task has failed, its JobRecord is
\* InProgress in every later state, and every later submit whose dedup lookup
\* returns that record is answered at once with 'Build verification already
\* in progress', with nothing inserted and nothing spawned.
C15_FailedUpdateLeavesInProgress ==
    /\ [](\A t \in Unrecorded :
            \E b \in builds :
                b.id = t.id /\ b.status = JobStatusToString("InProgress"))
    /\ [][\A t \in Unrecorded, c \in Calls :
            (/\ calls[c].pc = "lookup"
             /\ IsSome(calls'[c].is_duplicate)
             /\ Unwrap(calls'[c].is_duplicate).id = t.id) =>
                /\ calls'[c].pc = "done"
                /\ calls'[c].response = Some(AlreadyInProgressResponse(calls[c].uuid))]_vars

----------------------------------------------------------------------------
(* C16 *)

\* task t leaves verify_build through the Ok arm in this step, becoming u
TakesOkArm(t, u) ==
    /\ u.id = t.id
    /\ t.pc = "verify_build"
    /\ IsSome(u.res)

\* C16: a task whose verify_build returned Ok goes on to the status update
\* whether its upsert of the result succeeded or not, and that update, when it
\* succeeds, sets the JobRecord to Completed; an upsert that failed wrote
\* nothing.
C16_UpsertFailureKeepsStatusPath ==
    /\ [][\A t \in tasks, u \in tasks' :
            TakesOkArm(t, u) =>
                /\ u.pc = "update_build_status"
                /\ builds' = builds
                /\ ~u.upsert_ok => verified' = verified]_vars
    /\ [](\A t \in tasks :
            t.pc = "update_build_status" =>
                ENABLED UpdateBuildStatusCompleted(t, TRUE))
    /\ [](\A t \in tasks :
            (t.pc = "done" /\ IsSome(t.res) /\ t.status_ok) =>
                \E b \in builds :
                    b.id = t.id /\ b.status = JobStatusToString("Completed"))

\* a JobRecord is Completed, the upsert of its task failed, and no
\* VerifiedResult is stored for its program id
C16_Witness ==
    \E t \in tasks :
        /\ t.pc = "done" /\ IsSome(t.res) /\ ~t.upsert_ok /\ t.status_ok
        /\ \E b \in builds : b.id = t.id /\ b.status = JobStatusToString("Completed")
        /\ ~IsSome(verified[t.payload.program_id])

----------------------------------------------------------------------------
(* C17 *)

\* task t writes its result in this step, becoming u
WritesResult(t, u) ==
    /\ u.id = t.id
    /\ t.pc = "verify_build"
    /\ u.pc = "update_build_status"
    /\ u.upsert_ok

\* C17: the row stored for a program id changes only in the step in which a
\* task of that program id writes its result, and after every such step the
\* row is that task's result, whatever was stored before and whatever request
\* the task was spawned for; a report is built from the row stored for the
\* program id of the request at the time of the read.
C17_LastWriterWins ==
    /\ [][\A t \in tasks, u \in tasks' :
            WritesResult(t, u) => verified'[t.payload.program_id] = u.res]_vars
    /\ [][\A p \in ProgramIds :
            verified'[p] # verified[p] =>
                \E t \in tasks, u \in tasks' :
                    WritesResult(t, u) /\ t.payload.program_id = p]_vars
    /\ [][\A c \in Calls :
            Reports(c) =>
                calls'[c].response =
                    Some(StatusResponse(calls[c].data,
                                        Unwrap(verified[calls[c].payload.program_id])))]_vars

\* the report of a request carries the result written by the job of another
\* request of the same program id, which replaced the result of its own job
C17_Witness ==
    \E c \in Calls, t, u \in tasks :
        /\ Found(c, "Completed") /\ Finished(c)
        /\ Response(c).shape = "StatusResponse"
        /\ t.id = Unwrap(calls[c].is_duplicate).id
        /\ t.payload = calls[c].payload
        /\ u.payload # calls[c].payload
        /\ u.payload.program_id = calls[c].payload.program_id
        /\ t.upsert_ok /\ u.upsert_ok
        /\ Unwrap(t.res).is_verified # Unwrap(u.res).is_verified
        /\ verified[calls[c].payload.program_id] = u.res
        /\ Response(c).is_verified = Unwrap(u.res).is_verified
        /\ Response(c).executable_hash = Unwrap(u.res).executable_hash

----------------------------------------------------------------------------
(* C18 *)

\* the row of the verified build that a task writes for request r on verdict v
VerifiedRow(r, v) ==
    [ program_id      |-> r.program_id,
      is_verified     |-> v.is_verified,
      on_chain_hash   |-> v.on_chain_hash,
      executable_hash |-> v.executable_hash ]

\* report is the verification report of request r on the stored row vb
IsReportOf(report, r, vb) ==
    /\ report.is_verified = vb.is_verified
    /\ (report.message = "On chain program verified") <=> vb.is_verified
    /\ (report.message = "On chain program not verified") <=> ~vb.is_verified
    /\ report.on_chain_hash = vb.on_chain_hash
    /\ report.executable_hash = vb.executable_hash
    /\ IsSome(r.commit_hash) =>
          report.repo_url = r.repository \o "/commit/" \o Unwrap(r.commit_hash)
    /\ ~IsSome(r.commit_hash) => report.repo_url = r.repository

\* C18: the report says 'On chain program verified' exactly when the stored
\* verdict is true and 'On chain program not verified' otherwise; its repo
\* reference is '<repository>/commit/<commit>' when the request carries a
\* commit id and the bare repository otherwise; its hashes are those of the
\* stored row. This holds of the projection on every request and row, and of
\* every report a submit returns.
C18_ReportProjection ==
    /\ [](\A r \in Requests, v \in Verdicts, now \in Now :
            IsReportOf(StatusResponse(VerifyBuildData(r, NewUuid, now), VerifiedRow(r, v)),
                       r, VerifiedRow(r, v)))
    /\ [][\A c \in Calls :
            Reports(c) =>
                IsReportOf(Unwrap(calls'[c].response), calls[c].payload,
                           Unwrap(verified[calls[c].payload.program_id]))]_vars

\* a submit returned the report of a verified build for a request with a commit
C18_Witness ==
    \E c \in Calls :
        /\ Finished(c)
        /\ IsSome(calls[c].payload.commit_hash)
        /\ calls[c].response =
              Some([ code            |-> 200,
                     shape           |-> "StatusResponse",
                     is_verified     |-> TRUE,
                     message         |-> "On chain program verified",
                     on_chain_hash   |-> "h1",
                     executable_hash |-> "h1",
                     repo_url        |-> "https://x/y/commit/abc123" ])

----------------------------------------------------------------------------
(* C19 *)

\* call c was answered with a VerifyResponse, which carries a request_id
Tracked(c) == Finished(c) /\ Response(c).shape = "VerifyResponse"

\* C19: the request_id of a 'Build verification started' answer is the id of
\* the JobRecord that submit inserted and of the task it spawned; and the
\* request_id answered by a submit whose dedup lookup returned an InProgress
\* record is the id of no stored JobRecord.
C19_TrackingIds ==
    \A c \in Calls :
        Tracked(c) =>
            /\ Response(c).message = MsgStarted =>
                  /\ \E b \in builds :
                        /\ b.id = Response(c).request_id
                        /\ [b EXCEPT !.status = calls[c].data.status] = calls[c].data
                  /\ \E t \in tasks :
                        t.id = Response(c).request_id /\ t.payload = calls[c].payload
            /\ Found(c, "InProgress") =>
                  \A b \in builds : b.id # Response(c).request_id

----------------------------------------------------------------------------
(* C20 *)

\* call c went on to the creation of a job
WentOnToInsert(c) ==
    \/ calls[c].pc = "insert_build_params"
    \/ ~CreatedNothing(c)
    \/ Finished(c) /\ Response(c) \in {StartedResponse(calls[c].uuid), InsertErrorResponse}

\* C20: a submit goes on to the insert, and so to a JobRecord and a task of
\* its own, only when its dedup lookup returned no record or failed; a submit
\* whose lookup returned a record, whatever its status, never does.
C20_FoundDuplicateNeverInserts ==
    \A c \in Calls : WentOnToInsert(c) => ~IsSome(calls[c].is_duplicate)

====
